---- MODULE Spec2Model ----
\* MavlinkInterface (src/lib/ardupilot_interface.hpp): the asynchronous
\* message exchange with an autopilot over one serial transport.
\*
\* Three cooperative tasks share the transport: "init" (MavlinkInterface::init),
\* "hb" (MavlinkInterface::heartbeat, called directly or by heartbeat_loop) and
\* "pos" (MavlinkInterface::set_target_position_local).  Every co_await is a
\* suspension point: the transport completes the pending operation in one
\* step and the coroutine is resumed in another.
EXTENDS Integers, Sequences, FiniteSets, TLC

\* ---------------------------------------------------------------- bounds
\* bytes of one encoded outbound message (async_write may need several
\* write_some operations to put them on the wire)
MsgLen == 2
\* bytes of one inbound frame
FrameLen == 2
\* frames the autopilot sends in all
MaxFrames == 1

\* ------------------------------------------------------- program constants
BufSize == 8
m_heartbeat_channel == 0
m_targets_channel == 1
m_positions_channel == 2

Channels == {m_heartbeat_channel, m_targets_channel, m_positions_channel}
Tasks == {"init", "hb", "pos"}

\* enum class MavlinkErrc
MavlinkErrc ==
  {"NoHeartbeat", "NoCommandAck", "FailedWrite", "FailedRead",
   "TransmitTimeout", "ReceiveTimeout"}

\* The values a tResult<void> can hold: success, an error of the Mavlink
\* category, or an error code of another category (a raw asio error).
ResultValues == {"Success", "AsioError"} \cup MavlinkErrc

\* A coroutine returning awaitable<tResult<void>> that flows off its end
\* never stores a result (the promise has return_value only): the caller
\* reads the frame's result storage uninitialised, so any value can come out.
Uninitialised == ResultValues

\* The order of the sends of init(): ten PARAM_SET, then the reboot COMMAND_INT.
InitCommands ==
  << "SR0_RAW_SENS", "SR0_EXT_STAT", "SR0_RC_CHAN", "SR0_RAW_CTRL",
     "SR0_POSITION", "SR0_EXTRA1", "SR0_EXTRA2", "SR0_EXTRA3",
     "SR0_PARAMS", "SR0_ADSB", "PREFLIGHT_REBOOT_SHUTDOWN" >>
NumCommands == Len(InitCommands)
NumParams == NumCommands - 1

\* Kinds of inbound messages the autopilot sends.
MsgKinds == {"COMMAND_ACK", "HEARTBEAT"}

\* send_message hands async_write a buffer that is a local of send_message
\* and returns the awaitable before the write starts: the write reads the
\* bytes through a dangling pointer, so what goes on the wire is the encoded
\* message or whatever has replaced it on the stack.
ByteContents == {"encoded", "indeterminate"}

\* std::vector<uint8_t> buffer(8) bounds a read.  The shortest frame on a
\* real link is as long as that buffer, so no read holds the ends of two
\* frames; with the shorter frames of the model a read is capped alike.
MaxReadLen == IF FrameLen < BufSize THEN FrameLen ELSE BufSize

VARIABLES
  initPc,       \* "idle" | "send" | "wait" | "done"
  initStep,     \* index into InitCommands of the send being awaited
  initResult,   \* what the last init() returned; "none" before it returns
  initWrites,   \* the writes init() issued in this run, in order, each
                \* [cmd, outcome] as the transport saw it
  msgs_before,  \* wait_for_next_message: status->msg_received at entry
  waitExit,     \* how wait_for_next_message ended: "none" | "error" | "end"
  waitResult,   \* what wait_for_next_message returned (init() drops it)
  parse_before, \* bytes of a frame the channel's decoder held at wait entry
  rxLog,        \* kinds decoded on the heartbeat channel during this run's wait
  wr,           \* per task: the async_write it awaits
  rd,           \* the async_read_some init's wait awaits
  codec,        \* Frame Codec: per channel decode state
  rxIdx,        \* serial line: index in its frame of the next inbound byte
  rxKind,       \* serial line: kind of the inbound frame in flight
  hbPc,         \* "idle" | "write" | "done"
  hbResult,     \* what the last heartbeat() returned
  loopRunning,  \* heartbeat_loop is active
  posPc,
  posResult,
  wireBytes,    \* what the last write_some put on the wire
  posMsg        \* the command set_target_position_local packed

vars ==
  << initPc, initStep, initResult, initWrites, msgs_before, waitExit,
     waitResult, parse_before, rxLog, wr, rd, codec, rxIdx, rxKind, hbPc, hbResult, loopRunning, posPc,
     posResult, wireBytes, posMsg >>

initCtl ==
  << initPc, initStep, initResult, msgs_before, waitExit, waitResult,
     parse_before, rxLog >>
initVars == << initCtl, initWrites >>
hbVars == << hbPc, hbResult, loopRunning >>
posVars == << posPc, posResult, posMsg >>
rxVars == << rd, codec, rxIdx, rxKind >>

NoWrite == [state |-> "none", sent |-> 0]
NoRead == [state |-> "none", data |-> << >>]
IdleChannel == [msg_received |-> 0, last |-> "none", pos |-> 0, kind |-> "none"]

\* ------------------------------------------------------------ Frame Codec
\* feed(channel, byte): one byte into a channel's decoder.  A byte is
\* [kind, idx]: the idx-th byte of a frame of that kind.
Feed(cs, c) ==
  IF c.idx = cs.pos + 1 /\ (cs.pos = 0 \/ c.kind = cs.kind)
    THEN IF c.idx = FrameLen
           THEN [msg_received |-> cs.msg_received + 1, last |-> c.kind,
                 pos |-> 0, kind |-> "none"]
           ELSE [cs EXCEPT !.pos = c.idx, !.kind = c.kind]
    ELSE [cs EXCEPT !.pos = 0, !.kind = "none"]

\* std::for_each_n(cbegin(buffer), len, mavlink_parse_char(channel, c, ...))
FeedAll_First(cs, data) ==
  IF data = << >> THEN cs ELSE Feed(cs, Head(data))
RECURSIVE FeedAll(_, _)
FeedAll(cs, data) ==
  IF data = << >> THEN cs ELSE FeedAll(Feed(cs, Head(data)), Tail(data))

\* the kinds of the frames that complete while data is fed
RECURSIVE Decoded(_, _)
Decoded(cs, data) ==
  IF data = << >> THEN << >>
  ELSE LET n == Feed(cs, Head(data))
       IN  (IF n.msg_received > cs.msg_received THEN << n.last >> ELSE << >>)
             \o Decoded(n, Tail(data))

\* get_received_count(channel), get_last_decoded(channel)
ReceivedCount(ch) == codec[ch].msg_received
LastDecoded(ch) == codec[ch].last

\* ------------------------------------------------------------- primitives
\* send_message: encode, then async_write of the whole message.  (The buffer
\* it encodes into is a local of send_message, gone when the write starts.)
SendMessage(w, t) == [w EXCEPT ![t] = [state |-> "pending", sent |-> 0]]

\* const float INVALID = 0.0f
INVALID == 0

\* uint32_t USE_POSITION = 0x0DFC
USE_POSITION == 3580

\* the bit of type_mask that marks a field of the command as ignored
TypeMaskBit ==
  [x |-> 1, y |-> 2, z |-> 4, vx |-> 8, vy |-> 16, vz |-> 32,
   afx |-> 64, afy |-> 128, afz |-> 256, yaw |-> 1024, yaw_rate |-> 2048]
Fields == DOMAIN TypeMaskBit
PositionFields == {"x", "y", "z"}
Ignored(msg, f) == (msg.type_mask \div TypeMaskBit[f]) % 2 = 1

\* the xyz a caller passes
Targets == {<< 0, 0, 0 >>, << 1, 2, 3 >>}

\* mavlink_msg_set_position_target_local_ned_pack_chan(...)
PositionTarget(xyz) ==
  [channel |-> m_targets_channel, type_mask |-> USE_POSITION,
   x |-> xyz[1], y |-> xyz[2], z |-> xyz[3],
   vx |-> INVALID, vy |-> INVALID, vz |-> INVALID,
   afx |-> INVALID, afy |-> INVALID, afz |-> INVALID,
   yaw |-> INVALID, yaw_rate |-> INVALID]

\* no call of set_target_position_local is in progress
NoMsg == [type_mask |-> 0]

\* auto [error, written] = co_await send_message(msg): the coroutine has the
\* outcome of the write and drops the byte count
Awaited(w, t) == [w EXCEPT ![t].sent = 0]

\* the transport's record of a write init() issues, and of how it ended
Issued(cmd) == [cmd |-> cmd, outcome |-> "pending"]
Ended(log, t, outcome) ==
  IF t = "init" THEN [log EXCEPT ![Len(log)].outcome = outcome] ELSE log

\* new_msg->msgid != MAVLINK_MSG_ID_COMMAND_ACK
IsCommandAck_Always(kind) == TRUE
IsCommandAck(kind) == kind = "COMMAND_ACK"

\* if (error) break;  after each send of init()
InitWriteError_Never == FALSE
InitWriteError == wr["init"].state = "err"

\* co_return make_unexpected(MavlinkErrc::FailedWrite)  at the end of init()
InitFailureResult_Ack == "NoCommandAck"
InitFailureResult == "FailedWrite"

Init ==
  /\ initPc = "idle" /\ initStep = 0 /\ initResult = "none"
  /\ initWrites = << >> /\ msgs_before = 0 /\ waitExit = "none"
  /\ waitResult = "none" /\ parse_before = 0
  /\ rxLog = << >>
  /\ wr = [t \in Tasks |-> NoWrite]
  /\ rd = NoRead
  /\ codec = [ch \in Channels |-> IdleChannel]
  /\ rxIdx = 1 /\ rxKind = "none"
  /\ hbPc = "idle" /\ hbResult = "none" /\ loopRunning = FALSE
  /\ posPc = "idle" /\ posResult = "none"
  /\ wireBytes = "none"
  /\ posMsg = NoMsg

\* -------------------------------------------------------------- transport
\* one write_some of the async_write task t awaits: n more bytes on the wire
WriteSome(t) ==
  /\ wr[t].state = "pending"
  /\ \E n \in 1..(MsgLen - wr[t].sent) :
       LET outcome == IF wr[t].sent + n = MsgLen THEN "ok" ELSE "pending"
       IN  /\ wr' = [wr EXCEPT ![t] =
                       [state |-> outcome, sent |-> wr[t].sent + n]]
           /\ initWrites' = Ended(initWrites, t, outcome)
  /\ wireBytes' \in ByteContents
  /\ UNCHANGED << initCtl, hbVars, posVars, rxVars >>

\* the async_write fails; the bytes already written stay on the wire
WriteError(t) ==
  /\ wr[t].state = "pending"
  /\ wr' = [wr EXCEPT ![t].state = "err"]
  /\ initWrites' = Ended(initWrites, t, "err")
  /\ UNCHANGED << initCtl, hbVars, posVars, rxVars, wireBytes >>

\* frames the autopilot has sent in full: every inbound byte goes to the
\* heartbeat channel's decoder, read by read
FramesSent ==
  codec[m_heartbeat_channel].msg_received
    + Len(Decoded(codec[m_heartbeat_channel], rd.data))

\* the inbound byte at offset off from the line's position, where k1 is the
\* kind of the frame in flight and k2 the kind of the frame after it
LineByte(off, k1, k2) ==
  LET abs == (rxIdx - 1) + off
  IN  [kind |-> IF abs < FrameLen THEN k1 ELSE k2, idx |-> (abs % FrameLen) + 1]

\* async_read_some completes with len bytes of what the autopilot sends
ReadSome ==
  /\ rd.state = "pending"
  /\ \E len \in 1..MaxReadLen, k1 \in MsgKinds, k2 \in MsgKinds :
       LET end == (rxIdx - 1) + len
       IN  /\ end >= FrameLen => FramesSent < MaxFrames
           /\ rxIdx > 1 => k1 = rxKind
           /\ end <= FrameLen => k2 = k1
           /\ rd' = [state |-> "ok",
                     data |-> [i \in 1..len |-> LineByte(i - 1, k1, k2)]]
           /\ rxIdx' = (end % FrameLen) + 1
           /\ rxKind' = IF end % FrameLen = 0 THEN "none"
                        ELSE IF end < FrameLen THEN k1 ELSE k2
  /\ UNCHANGED << initVars, hbVars, posVars, wr, codec, wireBytes >>

ReadError ==
  /\ rd.state = "pending"
  /\ rd' = [state |-> "err", data |-> << >>]
  /\ UNCHANGED << initVars, hbVars, posVars, wr, codec, rxIdx, rxKind,
                  wireBytes >>

\* ------------------------------------------------------------------ init()
\* The caller starts init(); it runs to its first co_await, the write of
\* the first PARAM_SET.
InitCall ==
  /\ initPc \in {"idle", "done"}
  /\ initPc' = "send"
  /\ initStep' = 1
  /\ initResult' = "none"
  /\ initWrites' = << Issued(InitCommands[1]) >>
  /\ msgs_before' = 0
  /\ waitExit' = "none"
  /\ waitResult' = "none"
  /\ parse_before' = 0
  /\ rxLog' = << >>
  /\ wr' = SendMessage(wr, "init")
  /\ UNCHANGED << hbVars, posVars, rxVars, wireBytes >>

InitWriteResolved == initPc = "send" /\ wr["init"].state \in {"ok", "err"}

\* a send succeeded: pack and send the next command
InitNextSend ==
  /\ InitWriteResolved
  /\ ~InitWriteError
  /\ initStep < NumCommands
  /\ initStep' = initStep + 1
  /\ initWrites' = Append(initWrites, Issued(InitCommands[initStep + 1]))
  /\ wr' = SendMessage(wr, "init")
  /\ UNCHANGED << initPc, initResult, msgs_before, waitExit, waitResult,
                  parse_before, rxLog, hbVars, posVars, rxVars, wireBytes >>

\* a send failed: break, then co_return make_unexpected(FailedWrite)
InitWriteFailed ==
  /\ InitWriteResolved
  /\ InitWriteError
  /\ initPc' = "done"
  /\ initResult' = InitFailureResult
  /\ wr' = Awaited(wr, "init")
  /\ UNCHANGED << initStep, initWrites, msgs_before, waitExit, waitResult,
                  parse_before, rxLog, hbVars, posVars, rxVars, wireBytes >>

\* the reboot was written: wait_for_next_message(m_heartbeat_channel) records
\* the counter and issues its first read
InitEnterWait ==
  /\ InitWriteResolved
  /\ ~InitWriteError
  /\ initStep = NumCommands
  /\ initPc' = "wait"
  /\ msgs_before' = ReceivedCount(m_heartbeat_channel)
  /\ parse_before' = codec[m_heartbeat_channel].pos
  /\ rd' = [state |-> "pending", data |-> << >>]
  /\ wr' = Awaited(wr, "init")
  /\ UNCHANGED << initStep, initResult, initWrites, waitExit, waitResult,
                  rxLog, codec, rxIdx, rxKind, hbVars, posVars, wireBytes >>

\* co_return make_unexpected(error): the transport's own error code
WaitErrorResult == "AsioError"

\* while (status->msg_received == msgs_before)
WaitAgain_Never(received) == FALSE
WaitAgain(received) == received = msgs_before

\* the read failed: wait_for_next_message co_returns the transport's error
InitReadError ==
  /\ initPc = "wait"
  /\ rd.state = "err"
  /\ initPc' = "waited"
  /\ waitExit' = "error"
  /\ waitResult' = WaitErrorResult
  /\ rd' = NoRead
  /\ UNCHANGED << initStep, initResult, initWrites, msgs_before, parse_before,
                  rxLog, wr, codec, rxIdx, rxKind, hbVars, posVars,
                  wireBytes >>

\* the read returned bytes: all of them are fed to the waited channel
FedChannel == FeedAll(codec[m_heartbeat_channel], rd.data)

\* the counter did not move: read again
InitReadMore ==
  /\ initPc = "wait"
  /\ rd.state = "ok"
  /\ WaitAgain(FedChannel.msg_received)
  /\ codec' = [codec EXCEPT ![m_heartbeat_channel] = FedChannel]
  /\ rxLog' = rxLog \o Decoded(codec[m_heartbeat_channel], rd.data)
  /\ rd' = [state |-> "pending", data |-> << >>]
  /\ UNCHANGED << initPc, initStep, initResult, initWrites, msgs_before,
                  waitExit, waitResult, parse_before, wr, rxIdx, rxKind,
                  hbVars, posVars, wireBytes >>

\* the counter moved: the wait flows off its end
InitReadDone ==
  /\ initPc = "wait"
  /\ rd.state = "ok"
  /\ ~WaitAgain(FedChannel.msg_received)
  /\ codec' = [codec EXCEPT ![m_heartbeat_channel] = FedChannel]
  /\ rxLog' = rxLog \o Decoded(codec[m_heartbeat_channel], rd.data)
  /\ rd' = NoRead
  /\ initPc' = "waited"
  /\ waitExit' = "end"
  /\ waitResult' \in Uninitialised
  /\ UNCHANGED << initStep, initResult, initWrites, msgs_before, parse_before,
                  wr, rxIdx, rxKind, hbVars, posVars, wireBytes >>

\* init() resumes after the wait and drops its result: the kind of the last
\* message decoded on the heartbeat channel decides.  Not an ack:
\* NoCommandAck.  An ack: the loop ends, error is clear, and init() flows off
\* its end.
InitAfterWait ==
  /\ initPc = "waited"
  /\ initPc' = "done"
  /\ IF IsCommandAck(LastDecoded(m_heartbeat_channel))
       THEN initResult' \in Uninitialised
       ELSE initResult' = "NoCommandAck"
  /\ msgs_before' = 0
  /\ waitResult' = "none"
  /\ parse_before' = 0
  /\ UNCHANGED << initStep, initWrites, waitExit, rxLog, wr, rxVars, hbVars,
                  posVars, wireBytes >>

\* ------------------------------------------------------------- heartbeat()
\* a direct call of heartbeat()
HeartbeatCall ==
  /\ hbPc \in {"idle", "done"}
  /\ hbPc' = "write"
  /\ hbResult' = "none"
  /\ wr' = SendMessage(wr, "hb")
  /\ UNCHANGED << loopRunning, initVars, posVars, rxVars, wireBytes >>

\* heartbeat_loop starts and makes its first call
HeartbeatLoopStart ==
  /\ hbPc \in {"idle", "done"}
  /\ hbPc' = "write"
  /\ hbResult' = "none"
  /\ loopRunning' = TRUE
  /\ wr' = SendMessage(wr, "hb")
  /\ UNCHANGED << initVars, posVars, rxVars, wireBytes >>

\* the write failed: co_return make_unexpected(FailedWrite); a loop breaks
HeartbeatWriteFailed ==
  /\ hbPc = "write"
  /\ wr["hb"].state = "err"
  /\ hbPc' = "done"
  /\ hbResult' = "FailedWrite"
  /\ loopRunning' = FALSE
  /\ wr' = Awaited(wr, "hb")
  /\ UNCHANGED << initVars, posVars, rxVars, wireBytes >>

\* the write succeeded: heartbeat() logs and flows off its end.  Called
\* directly, or by a loop that reads an error out of the result and breaks.
HeartbeatReturn ==
  /\ hbPc = "write"
  /\ wr["hb"].state = "ok"
  /\ \E r \in Uninitialised :
       /\ loopRunning => r # "Success"
       /\ hbResult' = r
  /\ hbPc' = "done"
  /\ loopRunning' = FALSE
  /\ wr' = Awaited(wr, "hb")
  /\ UNCHANGED << initVars, posVars, rxVars, wireBytes >>

\* the write succeeded and the loop reads no error: it calls heartbeat() again
HeartbeatLoopAgain ==
  /\ hbPc = "write"
  /\ wr["hb"].state = "ok"
  /\ loopRunning
  /\ "Success" \in Uninitialised
  /\ wr' = SendMessage(wr, "hb")
  /\ UNCHANGED << hbVars, initVars, posVars, rxVars, wireBytes >>

\* ----------------------------------------------- set_target_position_local()
PosCall ==
  /\ posPc \in {"idle", "done"}
  /\ posPc' = "write"
  /\ posResult' = "none"
  /\ \E xyz \in Targets : posMsg' = PositionTarget(xyz)
  /\ wr' = SendMessage(wr, "pos")
  /\ UNCHANGED << initVars, hbVars, rxVars, wireBytes >>

PosWriteFailed ==
  /\ posPc = "write"
  /\ wr["pos"].state = "err"
  /\ posPc' = "done"
  /\ posResult' = "FailedWrite"
  /\ posMsg' = NoMsg
  /\ wr' = Awaited(wr, "pos")
  /\ UNCHANGED << initVars, hbVars, rxVars, wireBytes >>

PosReturn_Reads ==
  /\ posPc = "write"
  /\ wr["pos"].state = "ok"
  /\ posPc' = "done"
  /\ posResult' \in Uninitialised
  /\ posMsg' = NoMsg
  /\ wr' = Awaited(wr, "pos")
  /\ rd' = [state |-> "pending", data |-> << >>]
  /\ UNCHANGED << initVars, hbVars, codec, rxIdx, rxKind, wireBytes >>

\* the write succeeded: the function flows off its end
PosReturn ==
  /\ posPc = "write"
  /\ wr["pos"].state = "ok"
  /\ posPc' = "done"
  /\ posResult' \in Uninitialised
  /\ posMsg' = NoMsg
  /\ wr' = Awaited(wr, "pos")
  /\ UNCHANGED << initVars, hbVars, rxVars, wireBytes >>

\* ------------------------------------------------------------ specification
\* what the callers do
Call == InitCall \/ HeartbeatCall \/ HeartbeatLoopStart \/ PosCall

\* what the transport does; it may also never complete an operation
Transport ==
  \/ \E t \in Tasks : WriteSome(t)
  \/ \E t \in Tasks : WriteError(t)
  \/ ReadSome
  \/ ReadError

\* the resumption of a coroutine whose awaited operation has completed
InitResume ==
  \/ InitNextSend \/ InitWriteFailed \/ InitEnterWait
  \/ InitReadError \/ InitReadMore \/ InitReadDone \/ InitAfterWait
HeartbeatResume ==
  HeartbeatWriteFailed \/ HeartbeatReturn \/ HeartbeatLoopAgain
PosResume == PosWriteFailed \/ PosReturn

Next == Call \/ Transport \/ InitResume \/ HeartbeatResume \/ PosResume

Spec == Init /\ [][Next]_vars

\* The io_context resumes every coroutine whose operation has completed;
\* nothing obliges the transport to complete one, nor the callers to call.
FairSpec ==
  Spec /\ WF_vars(InitResume) /\ WF_vars(HeartbeatResume) /\ WF_vars(PosResume)

\* ------------------------------------------------------------------ claims
FailedWrites == {k \in 1..Len(initWrites) : initWrites[k].outcome = "err"}
AllWritesOk ==
  /\ Len(initWrites) = NumCommands
  /\ \A k \in 1..NumCommands : initWrites[k].outcome = "ok"
\* the first message decoded on the heartbeat channel after the reboot write
NextDecoded == IF rxLog = << >> THEN "none" ELSE rxLog[1]

\* C1: once a write of init() has failed, that write is the last one the
\* transport sees in the run: the later parameter sends and the reboot are
\* never written.
C1_Ordering ==
  \A k \in FailedWrites :
    /\ Len(initWrites) = k
    /\ \A j \in (k + 1)..NumCommands :
         \A i \in 1..Len(initWrites) : initWrites[i].cmd # InitCommands[j]

C1_Witness ==
  /\ initPc = "done"
  /\ FailedWrites = {5}
  /\ initWrites[5].cmd = "SR0_POSITION"

\* C2: a run of init() in which the transport failed a write never enters the
\* acknowledgment wait, issues no read, and returns FailedWrite.
C2_FailedWriteNoWait ==
  FailedWrites # {} =>
    /\ initPc \in {"send", "done"}
    /\ waitExit = "none"
    /\ rd.state = "none"
    /\ initPc = "done" => initResult = "FailedWrite"

C2_Witness ==
  /\ initPc = "done"
  /\ FailedWrites = {NumCommands}
  /\ initWrites[NumCommands].cmd = "PREFLIGHT_REBOOT_SHUTDOWN"
  /\ initResult = "FailedWrite"

\* C3: all eleven writes succeeded and the next message decoded on the
\* heartbeat channel is a command-ack: init() returns success.
C3_ScenarioB ==
  (initPc = "done" /\ AllWritesOk /\ NextDecoded = "COMMAND_ACK")
    => initResult = "Success"

\* C4: all eleven writes succeeded and the next message decoded on the
\* heartbeat channel is not a command-ack: init() returns NoCommandAck.
C4_ScenarioC ==
  (initPc = "done" /\ AllWritesOk /\ NextDecoded \in MsgKinds \ {"COMMAND_ACK"})
    => initResult = "NoCommandAck"

C4_Witness ==
  /\ initPc = "done"
  /\ AllWritesOk
  /\ waitExit = "end"
  /\ NextDecoded = "HEARTBEAT"
  /\ initResult = "NoCommandAck"

\* C5: the bytes of a send are contiguous on the wire: no task's bytes are
\* written while another task's message is partly written.
C5_Serialization ==
  [][\A t \in Tasks :
       wr'[t].sent > wr[t].sent =>
         \A u \in Tasks \ {t} :
           ~(wr[u].state = "pending" /\ wr[u].sent > 0)]_vars

\* C6: wait_for_next_message does not wait forever: when no message
\* completes, it returns (with ReceiveTimeout).
C6_WaitEnds == (initPc = "wait") ~> (initPc # "wait")

\* C7: every send resolves: a write the transport never completes ends
\* (with TransmitTimeout) instead of staying suspended.
C7_SendResolves ==
  \A t \in Tasks : (wr[t].state = "pending") ~> (wr[t].state # "pending")

\* C8: no byte of a heartbeat or of a position target reaches the transport
\* unless init() has returned success.
C8_Gating ==
  [][\A t \in {"hb", "pos"} :
       wr'[t].sent > wr[t].sent => initResult = "Success"]_vars

\* C9: heartbeat() returns FailedWrite when its write failed and success
\* when its write succeeded, whatever earlier calls returned.
C9_ScenarioD ==
  hbPc = "done" =>
    /\ wr["hb"].state = "err" => hbResult = "FailedWrite"
    /\ wr["hb"].state = "ok" => hbResult = "Success"

\* C10: when the acknowledgment wait fails, init() returns the wait's error
\* (FailedRead or ReceiveTimeout), not NoCommandAck and not success.
C10_WaitErrorReported ==
  (initPc = "done" /\ waitExit = "error")
    => initResult \in {"FailedRead", "ReceiveTimeout"}

\* C11: whenever a transport read fails during the wait,
\* wait_for_next_message returns FailedRead, not the transport's own error.
C11_ReadErrorTranslated ==
  waitExit = "error" => waitResult = "FailedRead"

\* C12: every finished init(), heartbeat() and set_target_position_local()
\* call returned success or one kind of MavlinkErrc, and never NoHeartbeat.
Taxonomy == {"Success"} \cup (MavlinkErrc \ {"NoHeartbeat"})

C12_ClosedTaxonomy ==
  /\ initPc = "done" => initResult \in Taxonomy
  /\ hbPc = "done" => hbResult \in Taxonomy
  /\ posPc = "done" => posResult \in Taxonomy

\* C13: the command set_target_position_local builds marks exactly x, y and
\* z as valid, marks every velocity, acceleration, yaw and yaw-rate field as
\* ignored, and each ignored field carries a sentinel that is not zero.
C13_FieldMask ==
  posPc = "write" =>
    /\ \A f \in PositionFields : ~Ignored(posMsg, f)
    /\ \A f \in Fields \ PositionFields :
         Ignored(posMsg, f) /\ posMsg[f] # 0

\* C14: in one init() call the transport sees a prefix of the eleven
\* commands in their order, each one the command init() encoded; a write
\* starts only after the one before it completed with success, no command is
\* written twice, and the reboot is written only after the ten parameters.
C14_InitWriteSequence ==
  /\ [](/\ Len(initWrites) <= NumCommands
        /\ \A k \in 1..Len(initWrites) : initWrites[k].cmd = InitCommands[k]
        /\ \A k \in 1..(Len(initWrites) - 1) : initWrites[k].outcome = "ok")
  /\ [][wr'["init"].sent > wr["init"].sent => wireBytes' = "encoded"]_vars

\* C15: the heartbeat loop goes on as long as each heartbeat() succeeds: it
\* ends only by a failed write, and ends at the first one, and from then on
\* it sends nothing.
C15_HeartbeatLoop ==
  [][/\ (loopRunning /\ ~loopRunning') => wr["hb"].state = "err"
     /\ (loopRunning /\ wr["hb"].state = "err" /\ hbPc' # hbPc)
          => (~loopRunning' /\ wr'["hb"].state = "err")]_vars

\* C16: a call of set_target_position_local writes once, and returns success
\* if and only if that write succeeded and FailedWrite if it failed.
C16_OneSendItsOutcome ==
  /\ [](posPc = "done" =>
          /\ wr["pos"].state = "ok" <=> posResult = "Success"
          /\ wr["pos"].state = "err" => posResult = "FailedWrite")
  /\ [][(wr["pos"].state # "pending" /\ wr'["pos"].state = "pending")
          => (posPc # "write" /\ posPc' = "write")]_vars

\* C17: wait_for_next_message returns success only when the counter of the
\* channel it waits on is above the value recorded at entry; no counter ever
\* decreases; and the counters of the other channels play no part: they do
\* not move while the wait runs.
C17_SuccessMeansAdvance ==
  /\ [](waitResult = "Success"
          => ReceivedCount(m_heartbeat_channel) > msgs_before)
  /\ [][\A ch \in Channels :
          /\ codec'[ch].msg_received >= codec[ch].msg_received
          /\ ch # m_heartbeat_channel => codec'[ch] = codec[ch]]_vars

C17_Witness ==
  /\ initPc = "waited" /\ waitExit = "end" /\ waitResult = "Success"
  /\ ReceivedCount(m_heartbeat_channel) = msgs_before + 1

\* C18: the decoder's parse state survives a wait that ends: the bytes of an
\* incomplete frame fed so far are neither dropped nor fed again, so the
\* decoder stays where the line is, a later wait completes the frame from the
\* bytes that remain, and the counter advances by one for each frame.
C18_ParseStateSurvives ==
  /\ FedChannel.pos = rxIdx - 1
  /\ FedChannel.pos > 0 => FedChannel.kind = rxKind
  /\ initPc = "waited" =>
       ReceivedCount(m_heartbeat_channel) = msgs_before + Len(rxLog)

\* a wait that began with part of a frame in the decoder ends with that
\* frame decoded
C18_Witness ==
  /\ initPc = "waited" /\ waitExit = "end"
  /\ parse_before > 0
  /\ Len(rxLog) = 1
  /\ ReceivedCount(m_heartbeat_channel) = msgs_before + 1

\* C19: init() returns success only if, in the same call and after the
\* reboot was written, a message was decoded on the heartbeat channel and it
\* is a command-ack; an ack decoded before that never makes init() succeed,
\* also when the wait ends with a read error.
C19_FreshAck ==
  (initPc = "done" /\ initResult = "Success")
    => /\ AllWritesOk
       /\ waitExit = "end"
       /\ rxLog # << >> /\ rxLog[Len(rxLog)] = "COMMAND_ACK"

\* C20: no step of heartbeat() or of set_target_position_local(), and no
\* write of theirs, issues a read or changes a channel's counter or last
\* decoded message; a read is in flight only inside init()'s wait.
SenderStep ==
  \/ hbVars' # hbVars \/ posVars' # posVars
  \/ wr'["hb"] # wr["hb"] \/ wr'["pos"] # wr["pos"]

C20_SendersReadNothing ==
  /\ [](rd.state # "none" => initPc = "wait")
  /\ [][SenderStep => (rd' = rd /\ codec' = codec)]_vars

\* both senders have returned, one failed and one not, while init() waits
\* with part of a frame decoded
C20_Witness ==
  /\ hbPc = "done" /\ wr["hb"].state = "err"
  /\ posPc = "done" /\ wr["pos"].state = "ok"
  /\ initPc = "wait" /\ rd.state = "pending"
  /\ codec[m_heartbeat_channel].pos > 0

====
